---- MODULE Spec2Model ----
(***************************************************************************)
(* Model of the disk usage report of joplin-du (src/src/index.ts).         *)
(* One run of getSpace is modelled at the granularity of its awaits: every *)
(* action is one request to the host (joplin.data / joplin.workspace /     *)
(* joplin.commands) together with the synchronous code that follows it up  *)
(* to the next await.  The host's data (resources, notes, notebooks, the   *)
(* selected notebook) is the environment.                                  *)
(***************************************************************************)
EXTENDS Integers, Sequences, FiniteSets, TLC

\* ------------------------------------------------------------------ bounds
NumNotes == 3      \* notes known to the host
MaxSize == 1       \* largest resource size (bytes) in a freely chosen record

\* ------------------------------------------------------- program constants
pageSize == 100    \* let pageSize = 100

\* ------------------------------------------------------- host environment
NoFolder == 0                       \* selectedFolder() resolves to nothing
Notes == 1..NumNotes
\* note.parent_id: the first two notes share a notebook
NoteParent(n) == IF n <= 2 THEN 1 ELSE n - 1
NoteTitle(n) == IF n % 2 = 0 THEN "" ELSE "Plans"      \* note.title
Folders == {NoteParent(n) : n \in Notes}
FolderTitle(f) == IF f % 2 = 0 THEN "" ELSE "Inbox"    \* notebook.title
\* the notebooks the user moves between while a run is suspended
Selectable == {1, 2}
Sizes == 0..MaxSize
Titles == {"", "diagram.png"}
\* lengths of the listings whose records are chosen freely
SmallCounts == 0..2
\* listing lengths that fill a page exactly or need more than one page
BigCounts == {pageSize, pageSize + 1, 2 * pageSize + 50}

\* the notes of a set, in the order the host returns them (by id)
RECURSIVE SeqOfSet(_)
SeqOfSet(S) ==
    IF S = {} THEN <<>>
    ELSE LET m == CHOOSE x \in S : \A y \in S : x <= y
         IN <<m>> \o SeqOfSet(S \ {m})

LinkSeqs == {SeqOfSet(S) : S \in SUBSET Notes}

Min(a, b) == IF a <= b THEN a ELSE b

VARIABLES
    srvResources,    \* host: the resources, in listing order
    srvNotes,        \* host: resource id -> notes referencing it
    selected,        \* host: the currently selected notebook, or NoFolder
    docs,            \* host: note id -> the notes created by the plugin
    nextId,          \* host: next note id to hand out
    opened,          \* host: note shown in the editor (openNote)
    pc,              \* position of the run of getSpace
    failedAt,        \* position at which the run threw
    currentFolder,   \* createTempNote: currentFolder
    tmpNote,         \* getSpace: tmpNote.id
    page,            \* getSpace: page
    resources,       \* getSpace: resources
    idx,             \* getSpace: position of the outer for loop
    linkedNotes,     \* getSpace: linkedNotes.items
    nidx,            \* getSpace: position of the inner for loop
    resourceData,    \* getSpace: resourceData
    notebookNames,   \* getSpace: notebookNames
    notebookSizes,   \* getSpace: notebookSizes
    sizeKeys,        \* getSpace: Object.keys(notebookSizes), insertion order
    noteContent,     \* getSpace: noteContent
    reportFolder,    \* getSpace: currentFolder
    newNote,         \* getSpace: newNote.id
    pagesRequested,  \* log: page numbers asked of the listing endpoint
    notesRequested,  \* log: resource ids whose notes were asked for
    foldersRequested \* log: notebook ids fetched

host == <<srvResources, srvNotes>>
locals == <<currentFolder, tmpNote, page, resources, idx, linkedNotes, nidx,
            resourceData, notebookNames, notebookSizes, sizeKeys,
            noteContent, reportFolder, newNote>>
logs == <<pagesRequested, notesRequested, foldersRequested>>
vars == <<srvResources, srvNotes, selected, docs, nextId, opened, pc,
          failedAt, currentFolder, tmpNote, page, resources, idx,
          linkedNotes, nidx, resourceData, notebookNames, notebookSizes,
          sizeKeys, noteContent, reportFolder, newNote, pagesRequested,
          notesRequested, foldersRequested>>

\* ------------------------------------------------------------ pure helpers
\* x || d on strings: the empty string is falsy
OrDefault(x, d) == IF x = "" THEN d ELSE x

\* (sizeInBytes / (1024 * 1024)).toFixed(2), as hundredths of a megabyte
formatSize(sizeInBytes) == (sizeInBytes * 100 + 524288) \div 1048576

\* listResources(page, limit): the items of that page and has_more
ListPage(p) ==
    LET n == Len(srvResources)
        lo == (p - 1) * pageSize + 1
        hi == Min(p * pageSize, n)
    IN [items |-> IF lo > hi THEN <<>> ELSE SubSeq(srvResources, lo, hi),
        has_more |-> p * pageSize < n]

\* the object pushed on resourceData[notebookId]
LinkEntry(resource, n) ==
    [resourceTitle |-> OrDefault(resource.title, "Untitled"),
     resourceSizeMB |-> formatSize(resource.size),
     resourceSize |-> resource.size,
     noteTitle |-> OrDefault(NoteTitle(n), "Untitled Note"),
     noteId |-> n,
     id |-> resource.id]

\* if (!resourceData[notebookId]) resourceData[notebookId] = []; push(entry)
PushEntry(rd, nb, e) ==
    [k \in DOMAIN rd \cup {nb} |->
        IF k = nb
        THEN (IF nb \in DOMAIN rd THEN rd[nb] ELSE <<>>) \o <<e>>
        ELSE rd[k]]

\* variant of AddSize: the size is assigned, not added
AddSizeAssigned(sz, nb, size) ==
    [k \in DOMAIN sz \cup {nb} |-> IF k = nb THEN size ELSE sz[k]]

\* if (!notebookSizes[id]) notebookSizes[id] = 0; notebookSizes[id] += size
AddSize(sz, nb, size) ==
    [k \in DOMAIN sz \cup {nb} |->
        IF k = nb
        THEN (IF nb \in DOMAIN sz /\ sz[nb] # 0 THEN sz[nb] ELSE 0) + size
        ELSE sz[k]]

\* own property order of notebookSizes: a new key goes last (notebook ids are
\* 32 hex digit strings, never array indices, so keys keep insertion order)
AddKey(keys, nb) ==
    IF \E k \in 1..Len(keys) : keys[k] = nb THEN keys ELSE Append(keys, nb)

\* !notebookNames[notebookId]: absent, or an empty title
NameMissing(names, nb) == nb \notin DOMAIN names \/ names[nb] = ""

\* the body of the inner for loop after the notebook name is known
Record(st, resource, n) ==
    LET nb == NoteParent(n)
    IN [rd |-> PushEntry(st.rd, nb, LinkEntry(resource, n)),
        sz |-> AddSize(st.sz, nb, resource.size),
        keys |-> AddKey(st.keys, nb)]

\* the inner for loop from position j on, up to its next await (a notebook
\* whose name is missing) or its end; j is where it stopped
RECURSIVE Drain(_, _, _, _, _)
Drain(j, notes, resource, names, st) ==
    IF j > Len(notes) THEN [j |-> j, st |-> st]
    ELSE IF NameMissing(names, NoteParent(notes[j])) THEN [j |-> j, st |-> st]
    ELSE Drain(j + 1, notes, resource, names, Record(st, resource, notes[j]))

\* variant of SortDesc: descending, but equal keys come out in reverse order
SortDescTiesReversed(key) ==
    LET n == Len(key)
        rank(i) == 1 + Cardinality({j \in 1..n :
                        key[j] > key[i] \/ (key[j] = key[i] /\ j > i)})
    IN [p \in 1..n |-> CHOOSE i \in 1..n : rank(i) = p]

\* Array.prototype.sort((a, b) => b.key - a.key): stable, descending.
\* key is the sequence of sort keys; the result lists the positions of the
\* input in output order.
SortDesc(key) ==
    LET n == Len(key)
        rank(i) == 1 + Cardinality({j \in 1..n :
                        key[j] > key[i] \/ (key[j] = key[i] /\ j < i)})
    IN [p \in 1..n |-> CHOOSE i \in 1..n : rank(i) = p]

\* Object.keys(notebookSizes).map(...).sort((a, b) => b.size - a.size)
SortedNotebooks(keys, sz) ==
    LET unsorted == [k \in 1..Len(keys) |-> [id |-> keys[k], size |-> sz[keys[k]]]]
        order == SortDesc([k \in 1..Len(keys) |-> unsorted[k].size])
    IN [p \in 1..Len(keys) |-> unsorted[order[p]]]

\* notebookResources.sort((a, b) => b.resourceSize - a.resourceSize)
SortedResources(entries) ==
    LET order == SortDesc([k \in 1..Len(entries) |-> entries[k].resourceSize])
    IN [p \in 1..Len(entries) |-> entries[order[p]]]

\* notebookResources.filter(r => r.id === resource.id)
SameResource(r, resource) == r.id = resource.id

\* the "- [noteTitle](noteLink)" lines of one block
NoteLines(entries, resource) ==
    LET hits == SelectSeq(entries, LAMBDA r : SameResource(r, resource))
    IN [k \in 1..Len(hits) |->
           [noteTitle |-> hits[k].noteTitle, noteLink |-> hits[k].noteId]]

\* the loop over notebookResources with printedResources
RECURSIVE RenderBlocks(_, _, _)
RenderBlocks(k, entries, printed) ==
    IF k > Len(entries) THEN <<>>
    ELSE LET resource == entries[k]
         IN IF resource.resourceTitle \notin printed
            THEN <<[title |-> resource.resourceTitle,
                    sizeMB |-> resource.resourceSizeMB,
                    id |-> resource.id,
                    notes |-> NoteLines(entries, resource)]>>
                 \o RenderBlocks(k + 1, entries,
                                 printed \cup {resource.resourceTitle})
            ELSE RenderBlocks(k + 1, entries, printed)

\* one "## <name> (Total size: ... MB)" section
RenderSection(notebook, names, rd) ==
    [notebookId |-> notebook.id,
     name |-> names[notebook.id],
     size |-> notebook.size,
     totalMB |-> formatSize(notebook.size),
     blocks |-> RenderBlocks(1, SortedResources(rd[notebook.id]), {})]

\* noteContent after the loop over sortedNotebooks
Render(names, st) ==
    LET sorted == SortedNotebooks(st.keys, st.sz)
    IN [text |-> "# Joplin Disk Usage Report [toc]",
        sections |-> [p \in 1..Len(sorted) |->
                         RenderSection(sorted[p], names, st.rd)]]

EmptyContent == [text |-> "", sections |-> <<>>]
Placeholder == [text |-> "Wait ... processing", sections |-> <<>>]

\* joplin.data.post(['notes'], null, {title, parent_id, body})
PostNote(d, id, parent, body) ==
    [k \in DOMAIN d \cup {id} |->
        IF k = id
        THEN [title |-> "Joplin Disk Usage Report", parent_id |-> parent,
              body |-> body]
        ELSE d[k]]

\* variant of DeleteNote: the note stays
DeleteNoteIgnored(d, id) == d

\* joplin.data.delete(['notes', id])
DeleteNote(d, id) == [k \in DOMAIN d \ {id} |-> d[k]]

\* ------------------------------------------------------------ initial state
\* a listing of n freely chosen resources; resource ids are 1..n
SmallHosts ==
    UNION {[1..n -> [size : Sizes, title : Titles, notes : LinkSeqs]] :
              n \in SmallCounts}

\* a listing of n resources that no note references
BigHost(n) == [i \in 1..n |-> [size |-> 1 + (i % 2), title |-> "", notes |-> <<>>]]

Hosts == SmallHosts \cup {BigHost(n) : n \in BigCounts}

Init ==
    /\ \E h \in Hosts :
          /\ srvResources = [i \in DOMAIN h |->
                                [id |-> i, size |-> h[i].size, title |-> h[i].title]]
          /\ srvNotes = [i \in DOMAIN h |-> h[i].notes]
    /\ selected \in Selectable \cup {NoFolder}
    /\ docs = <<>>
    /\ nextId = 1
    /\ opened = 0
    /\ pc = "idle"
    /\ failedAt = "none"
    /\ currentFolder = NoFolder
    /\ tmpNote = 0
    /\ page = 1
    /\ resources = <<>>
    /\ idx = 0
    /\ linkedNotes = <<>>
    /\ nidx = 0
    /\ resourceData = <<>>
    /\ notebookNames = <<>>
    /\ notebookSizes = <<>>
    /\ sizeKeys = <<>>
    /\ noteContent = EmptyContent
    /\ reportFolder = NoFolder
    /\ newNote = 0
    /\ pagesRequested = <<>>
    /\ notesRequested = <<>>
    /\ foldersRequested = <<>>

\* ------------------------------------------------------------------ actions
\* variant of HasId: the id is read without throwing (currentFolder?.id)
HasIdUnchecked(folder) == TRUE

\* currentFolder.id can be read: reading a property of nothing throws
HasId(folder) == folder # NoFolder

\* variant of MorePages: } while (response.items.length > 0);
MorePagesWhileItems(response) == Len(response.items) > 0

\* } while (response.has_more);
MorePages(response) == response.has_more

\* variant of Abort: a finally block removes the placeholder
AbortCleanup(at) ==
    /\ pc' = "failed"
    /\ failedAt' = at
    /\ docs' = DeleteNote(docs, tmpNote)
    /\ UNCHANGED <<nextId, opened>>

\* an awaited call rejects, or the code after it throws: nothing in getSpace
\* catches, so the run ends there
Abort(at) ==
    /\ pc' = "failed"
    /\ failedAt' = at
    /\ UNCHANGED <<docs, nextId, opened>>

\* the user picks another notebook in the host while the run is suspended
SelectFolder ==
    /\ pc \notin {"idle", "done", "failed"}
    /\ \E f \in (Selectable \cup {NoFolder}) \ {selected} : selected' = f
    /\ UNCHANGED <<host, docs, nextId, opened, pc, failedAt, locals, logs>>

\* the command createDiskUsageReport is executed
Execute ==
    /\ pc = "idle"
    /\ pc' = "createTempNote"
    /\ UNCHANGED <<host, selected, docs, nextId, opened, failedAt, locals, logs>>

\* const currentFolder = await joplin.workspace.selectedFolder();
\* then currentFolder.id is read to build the post
SelectedFolderTemp ==
    /\ pc = "createTempNote"
    /\ currentFolder' = selected
    /\ IF ~HasId(selected)
       THEN Abort("createTempNote")
       ELSE /\ pc' = "postTemp"
            /\ UNCHANGED <<failedAt, docs, nextId, opened>>
    /\ UNCHANGED <<host, selected, tmpNote, page, resources, idx, linkedNotes,
                   nidx, resourceData, notebookNames, notebookSizes, sizeKeys,
                   noteContent, reportFolder, newNote, logs>>

\* const newNote = await joplin.data.post(['notes'], null, {...placeholder})
PostTemp ==
    /\ pc = "postTemp"
    /\ \E ok \in BOOLEAN :
          IF ok
          THEN /\ docs' = PostNote(docs, nextId, currentFolder, Placeholder)
               /\ tmpNote' = nextId
               /\ nextId' = nextId + 1
               /\ pc' = "openTemp"
               /\ UNCHANGED <<failedAt, opened>>
          ELSE /\ Abort("postTemp")
               /\ UNCHANGED tmpNote
    /\ UNCHANGED <<host, selected, currentFolder, page, resources, idx,
                   linkedNotes, nidx, resourceData, notebookNames,
                   notebookSizes, sizeKeys, noteContent, reportFolder, newNote,
                   logs>>

\* await joplin.commands.execute('openNote', newNote.id); return newNote;
\* then page = 1, resources = [] and the do loop is entered
OpenTemp ==
    /\ pc = "openTemp"
    /\ \E ok \in BOOLEAN :
          IF ok
          THEN /\ opened' = tmpNote
               /\ page' = 1
               /\ resources' = <<>>
               /\ pc' = "listResources"
               /\ UNCHANGED <<failedAt, docs, nextId>>
          ELSE /\ Abort("openTemp")
               /\ UNCHANGED <<page, resources>>
    /\ UNCHANGED <<host, selected, currentFolder, tmpNote, idx, linkedNotes,
                   nidx, resourceData, notebookNames, notebookSizes, sizeKeys,
                   noteContent, reportFolder, newNote, logs>>

\* the loop over sortedNotebooks: the report is rendered (the entries of each
\* notebook are sorted in place) and the run suspends on selectedFolder()
Finish(names, st) ==
    /\ pc' = "selectedFolder"
    /\ noteContent' = Render(names, st)
    /\ resourceData' = [nb \in DOMAIN st.rd |-> SortedResources(st.rd[nb])]
    /\ notebookSizes' = st.sz
    /\ sizeKeys' = st.keys
    /\ idx' = 0
    /\ nidx' = 0
    /\ linkedNotes' = <<>>

\* for (let resource of resources): resource i is next, or the loop is over
NextResource(res, i, names, st) ==
    IF i <= Len(res)
    THEN /\ pc' = "listNotes"
         /\ idx' = i
         /\ nidx' = 0
         /\ linkedNotes' = <<>>
         /\ resourceData' = st.rd
         /\ notebookSizes' = st.sz
         /\ sizeKeys' = st.keys
         /\ UNCHANGED noteContent
    ELSE Finish(names, st)

\* for (let note of linkedNotes.items) from note j of resource i on, up to the
\* next await
Resume(i, notes, j, names, st) ==
    LET d == Drain(j, notes, resources[i], names, st)
    IN IF d.j <= Len(notes)
       THEN /\ pc' = "getNotebook"
            /\ idx' = i
            /\ nidx' = d.j
            /\ linkedNotes' = notes
            /\ resourceData' = d.st.rd
            /\ notebookSizes' = d.st.sz
            /\ sizeKeys' = d.st.keys
            /\ UNCHANGED noteContent
       ELSE NextResource(resources, i + 1, names, d.st)

Aggregates == [rd |-> resourceData, sz |-> notebookSizes, keys |-> sizeKeys]

\* do { response = await joplin.data.get(['resources'], {page, limit});
\*      resources = resources.concat(response.items); page++; }
\* while (response.has_more);
ListResources ==
    /\ pc = "listResources"
    /\ pagesRequested' = Append(pagesRequested, page)
    /\ \E ok \in BOOLEAN :
          IF ok
          THEN LET response == ListPage(page)
               IN /\ resources' = resources \o response.items
                  /\ page' = page + 1
                  /\ IF MorePages(response)
                     THEN /\ pc' = "listResources"
                          /\ UNCHANGED <<idx, nidx, linkedNotes, resourceData,
                                         notebookSizes, sizeKeys, noteContent>>
                     ELSE NextResource(resources', 1, notebookNames,
                                       [rd |-> <<>>, sz |-> <<>>, keys |-> <<>>])
                  /\ UNCHANGED <<failedAt, docs, nextId, opened>>
          ELSE /\ Abort("listResources")
               /\ UNCHANGED <<resources, page, idx, nidx, linkedNotes,
                              resourceData, notebookSizes, sizeKeys,
                              noteContent>>
    /\ UNCHANGED <<host, selected, currentFolder, tmpNote, notebookNames,
                   reportFolder, newNote, notesRequested, foldersRequested>>

\* let linkedNotes = await joplin.data.get(['resources', resourceId, 'notes'])
ListNotes ==
    /\ pc = "listNotes"
    /\ notesRequested' = Append(notesRequested, resources[idx].id)
    /\ \E ok \in BOOLEAN :
          IF ok
          THEN /\ Resume(idx, srvNotes[resources[idx].id], 1, notebookNames,
                         Aggregates)
               /\ UNCHANGED <<failedAt, docs, nextId, opened>>
          ELSE /\ Abort("listNotes")
               /\ UNCHANGED <<idx, nidx, linkedNotes, resourceData,
                              notebookSizes, sizeKeys, noteContent>>
    /\ UNCHANGED <<host, selected, currentFolder, tmpNote, page, resources,
                   notebookNames, reportFolder, newNote, pagesRequested,
                   foldersRequested>>

\* let notebook = await joplin.data.get(['folders', notebookId]);
\* notebookNames[notebookId] = notebook.title;  then the rest of the loop body
GetNotebook ==
    /\ pc = "getNotebook"
    /\ LET notebookId == NoteParent(linkedNotes[nidx])
       IN /\ foldersRequested' = Append(foldersRequested, notebookId)
          /\ \E ok \in BOOLEAN :
                IF ok
                THEN LET names == [k \in DOMAIN notebookNames \cup {notebookId} |->
                                      IF k = notebookId THEN FolderTitle(notebookId)
                                      ELSE notebookNames[k]]
                     IN /\ notebookNames' = names
                        /\ Resume(idx, linkedNotes, nidx + 1, names,
                                  Record(Aggregates, resources[idx],
                                         linkedNotes[nidx]))
                        /\ UNCHANGED <<failedAt, docs, nextId, opened>>
                ELSE /\ Abort("getNotebook")
                     /\ UNCHANGED <<idx, nidx, linkedNotes, resourceData,
                                    notebookNames, notebookSizes, sizeKeys,
                                    noteContent>>
    /\ UNCHANGED <<host, selected, currentFolder, tmpNote, page, resources,
                   reportFolder, newNote, pagesRequested, notesRequested>>

\* const currentFolder = await joplin.workspace.selectedFolder();
\* then currentFolder.id is read to build the post
SelectedFolderReport ==
    /\ pc = "selectedFolder"
    /\ reportFolder' = selected
    /\ IF ~HasId(selected)
       THEN Abort("selectedFolder")
       ELSE /\ pc' = "postReport"
            /\ UNCHANGED <<failedAt, docs, nextId, opened>>
    /\ UNCHANGED <<host, selected, currentFolder, tmpNote, page, resources,
                   idx, linkedNotes, nidx, resourceData, notebookNames,
                   notebookSizes, sizeKeys, noteContent, newNote, logs>>

\* const newNote = await joplin.data.post(['notes'], null, {...noteContent})
PostReport ==
    /\ pc = "postReport"
    /\ \E ok \in BOOLEAN :
          IF ok
          THEN /\ docs' = PostNote(docs, nextId, reportFolder, noteContent)
               /\ newNote' = nextId
               /\ nextId' = nextId + 1
               /\ pc' = "openReport"
               /\ UNCHANGED <<failedAt, opened>>
          ELSE /\ Abort("postReport")
               /\ UNCHANGED newNote
    /\ UNCHANGED <<host, selected, currentFolder, tmpNote, page, resources,
                   idx, linkedNotes, nidx, resourceData, notebookNames,
                   notebookSizes, sizeKeys, noteContent, reportFolder, logs>>

\* await joplin.commands.execute('openNote', newNote.id);
OpenReport ==
    /\ pc = "openReport"
    /\ \E ok \in BOOLEAN :
          IF ok
          THEN /\ opened' = newNote
               /\ pc' = "deleteTemp"
               /\ UNCHANGED <<failedAt, docs, nextId>>
          ELSE Abort("openReport")
    /\ UNCHANGED <<host, selected, locals, logs>>

\* await joplin.data.delete(['notes', tmpNote.id]);
DeleteTemp ==
    /\ pc = "deleteTemp"
    /\ \E ok \in BOOLEAN :
          IF ok
          THEN /\ docs' = DeleteNote(docs, tmpNote)
               /\ pc' = "done"
               /\ UNCHANGED <<failedAt, nextId, opened>>
          ELSE Abort("deleteTemp")
    /\ UNCHANGED <<host, selected, locals, logs>>

Next ==
    \/ SelectFolder
    \/ Execute
    \/ SelectedFolderTemp
    \/ PostTemp
    \/ OpenTemp
    \/ ListResources
    \/ ListNotes
    \/ GetNotebook
    \/ SelectedFolderReport
    \/ PostReport
    \/ OpenReport
    \/ DeleteTemp

Spec == Init /\ [][Next]_vars

\* ---------------------------------------------------------- what the host holds
\* one link per (resource, referencing note) pair: <<resource id, position
\* of the note in the host's answer for that resource>>
Links == {l \in (DOMAIN srvResources) \X Notes : l[2] <= Len(srvNotes[l[1]])}
LinkNote(l) == srvNotes[l[1]][l[2]]
LinkNotebook(l) == NoteParent(LinkNote(l))
LinkSize(l) == srvResources[l[1]].size
LinkTitle(l) == OrDefault(srvResources[l[1]].title, "Untitled")
LinksOf(nb) == {l \in Links : LinkNotebook(l) = nb}
\* the order in which the resolver meets the links
LinkBefore(a, b) == a[1] < b[1] \/ (a[1] = b[1] /\ a[2] < b[2])
FirstLink(nb) == CHOOSE l \in LinksOf(nb) : \A m \in LinksOf(nb) : m = l \/ LinkBefore(l, m)

RECURSIVE SumSizes(_)
SumSizes(S) ==
    IF S = {} THEN 0
    ELSE LET l == CHOOSE x \in S : TRUE IN LinkSize(l) + SumSizes(S \ {l})

RECURSIVE SumSections(_, _)
SumSections(secs, k) ==
    IF k > Len(secs) THEN 0 ELSE secs[k].size + SumSections(secs, k + 1)

\* the report has been rendered
Rendered == noteContent # EmptyContent
Sections == noteContent.sections
SectionsOf(nb) == {p \in DOMAIN Sections : Sections[p].notebookId = nb}
BlocksOf(p, id) == {b \in DOMAIN Sections[p].blocks : Sections[p].blocks[b].id = id}
\* the notes of notebook nb that reference resource i, in the host's order
NotesIn(i, nb) == SelectSeq(srvNotes[i], LAMBDA n : NoteParent(n) = nb)

\* ------------------------------------------------------------------- claims

\* C1: once all resources are processed, the total of each notebook is the
\* sum of the resource size over every link (resource, referencing note)
\* whose note is in that notebook, a notebook without links has no total,
\* and the totals of all sections add up to the sizes of all links.
C1_TotalsPerLink ==
    Rendered =>
        /\ DOMAIN notebookSizes = {nb \in Folders : LinksOf(nb) # {}}
        /\ \A nb \in Folders :
              IF LinksOf(nb) = {}
              THEN SectionsOf(nb) = {}
              ELSE /\ notebookSizes[nb] = SumSizes(LinksOf(nb))
                   /\ Cardinality(SectionsOf(nb)) = 1
                   /\ \A p \in SectionsOf(nb) :
                         Sections[p].size = SumSizes(LinksOf(nb))
        /\ SumSections(Sections, 1) = SumSizes(Links)

\* a finished run in which one resource of size s > 0 is referenced by two
\* notes of one notebook, whose total is at least 2 s
C1_Witness ==
    /\ pc = "done"
    /\ \E i \in DOMAIN srvResources : \E nb \in Folders :
          /\ srvResources[i].size > 0
          /\ Len(NotesIn(i, nb)) >= 2
          /\ notebookSizes[nb] >= 2 * srvResources[i].size

\* C2: in a section, every link of that notebook whose resource has the
\* title of a block contributes one note line to that block, whichever
\* resource it comes from.
C2_BlockListsAllOfTitle ==
    Rendered =>
        \A p \in DOMAIN Sections : \A b \in DOMAIN Sections[p].blocks :
            Len(Sections[p].blocks[b].notes) =
                Cardinality({l \in LinksOf(Sections[p].notebookId) :
                                LinkTitle(l) = Sections[p].blocks[b].title})

\* C3: for every notebook and every resource referenced from it, the section
\* of the notebook has exactly one block for the resource, and the block
\* lists all notes of the notebook that reference it.
C3_OneBlockPerResource ==
    Rendered =>
        \A i \in DOMAIN srvResources : \A nb \in Folders :
            NotesIn(i, nb) # <<>> =>
                \A p \in SectionsOf(nb) :
                    /\ Cardinality(BlocksOf(p, i)) = 1
                    /\ \A b \in BlocksOf(p, i) :
                          [k \in DOMAIN Sections[p].blocks[b].notes |->
                              Sections[p].blocks[b].notes[k].noteLink]
                          = NotesIn(i, nb)

\* C4: the sections are in non-increasing order of total size, and sections
\* of equal total are in the order in which the resolver first met a link of
\* their notebooks.
C4_SectionsRanked ==
    Rendered =>
        \A p, q \in DOMAIN Sections :
            p < q =>
                /\ Sections[p].size >= Sections[q].size
                /\ Sections[p].size = Sections[q].size =>
                      LinkBefore(FirstLink(Sections[p].notebookId),
                                 FirstLink(Sections[q].notebookId))

\* a finished run with two sections of equal, positive total where the
\* notebook with the larger id was met first and comes first
C4_Witness ==
    /\ pc = "done"
    /\ Len(Sections) >= 2
    /\ Sections[1].size = Sections[2].size
    /\ Sections[1].size > 0
    /\ Sections[1].notebookId > Sections[2].notebookId

\* C5: after a run that completed, the placeholder is gone and the one note
\* that exists is the report created by the run, with the rendered report
\* as its body; the placeholder is deleted only when the report exists.
C5_Done ==
    pc = "done" =>
        /\ tmpNote \notin DOMAIN docs
        /\ DOMAIN docs = {newNote}
        /\ newNote # tmpNote
        /\ Rendered
        /\ docs[newNote].body = noteContent
C5_DeleteAfterReport ==
    (tmpNote \in DOMAIN docs /\ tmpNote \notin DOMAIN docs') =>
        (newNote \in DOMAIN docs /\ docs[newNote].body = noteContent)
C5_PlaceholderLifecycle == [](C5_Done) /\ [][C5_DeleteAfterReport]_vars

\* a finished run whose report has a section
C5_Witness ==
    /\ pc = "done"
    /\ newNote \in DOMAIN docs
    /\ Len(docs[newNote].body.sections) >= 1

\* C6: the report is published in the notebook in which the placeholder of
\* the run was created.
C6_ReportInPlaceholderNotebook ==
    newNote \in DOMAIN docs => docs[newNote].parent_id = currentFolder

\* C7: when a listing, linkage or notebook request fails the run stops
\* there: the placeholder stays, no report is created, and afterwards no
\* request is issued and no note is created or deleted.
FetchFailed == pc = "failed" /\ failedAt \in {"listResources", "listNotes", "getNotebook"}
C7_Aborted ==
    FetchFailed =>
        /\ DOMAIN docs = {tmpNote}
        /\ docs[tmpNote].body = Placeholder
        /\ newNote = 0
C7_Stopped == pc = "failed" => UNCHANGED <<pc, failedAt, docs, nextId, logs>>
C7_FailureAborts == [](C7_Aborted) /\ [][C7_Stopped]_vars

\* a run that failed on a notebook fetch after one resource was aggregated
C7_Witness ==
    /\ pc = "failed"
    /\ failedAt = "getNotebook"
    /\ tmpNote \in DOMAIN docs
    /\ DOMAIN resourceData # {}

\* C8: the pages are requested as 1, 2, ... in order, each once, never more
\* than max(1, ceil(N / pageSize)); once the listing is over exactly that
\* many were requested and the collected sequence is the host's listing.
PageCount == IF Len(srvResources) = 0 THEN 1
             ELSE (Len(srvResources) + pageSize - 1) \div pageSize
Listed == \/ pc \in {"listNotes", "getNotebook", "selectedFolder", "postReport",
                     "openReport", "deleteTemp", "done"}
          \/ pc = "failed" /\ failedAt \in {"listNotes", "getNotebook",
                     "selectedFolder", "postReport", "openReport", "deleteTemp"}
C8_Pagination ==
    /\ Len(pagesRequested) <= PageCount
    /\ \A k \in DOMAIN pagesRequested : pagesRequested[k] = k
    /\ Listed => /\ Len(pagesRequested) = PageCount
                 /\ resources = srvResources

\* 250 resources were collected with three requests
C8_Witness ==
    /\ Listed
    /\ Len(srvResources) = 2 * pageSize + 50
    /\ pagesRequested = <<1, 2, 3>>
    /\ Len(resources) = 2 * pageSize + 50

\* C9: a run started without a current notebook fails before it creates a
\* note or asks for a page of resources.
StartedWithoutFolder == pc \notin {"idle", "createTempNote"} /\ currentFolder = NoFolder
C9_NoFolderNoDocument ==
    StartedWithoutFolder =>
        /\ pc = "failed"
        /\ failedAt = "createTempNote"
        /\ docs = <<>>
        /\ nextId = 1
        /\ tmpNote = 0
        /\ newNote = 0
        /\ pagesRequested = <<>>

\* a run that was started without a current notebook
C9_Witness == StartedWithoutFolder /\ pc = "failed"

\* C10: a resource referenced from two notebooks has a block in the section
\* of each, and each of the two blocks lists only notes of its notebook.
C10_BlockInEachNotebook ==
    Rendered =>
        \A i \in DOMAIN srvResources : \A nb1, nb2 \in Folders :
            (nb1 # nb2 /\ NotesIn(i, nb1) # <<>> /\ NotesIn(i, nb2) # <<>>) =>
                \A p \in SectionsOf(nb1) :
                    /\ BlocksOf(p, i) # {}
                    /\ \A b \in BlocksOf(p, i) :
                          \A k \in DOMAIN Sections[p].blocks[b].notes :
                              NoteParent(Sections[p].blocks[b].notes[k].noteLink) = nb1

\* C11: during a run every notebook id, whatever its title, is fetched at
\* most once; later links of that notebook reuse the cached title.
FetchesOf(nb) == Cardinality({k \in DOMAIN foldersRequested : foldersRequested[k] = nb})
C11_NotebookFetchedOnce == \A nb \in Folders : FetchesOf(nb) <= 1

====
